---- MODULE Spec2Model ----
(***************************************************************************)
(* GLBModel: a three.js viewer that loads a base asset, then the remaining *)
(* assets, and swaps an "off"/"on" asset pair per configured key.          *)
(*                                                                         *)
(* The model follows the listing with key models (src/unnamed/part_000,    *)
(* lines 35-385; lines 397-711 repeat it with the same logic).  Every      *)
(* loader callback and every key listener is one atomic action: the        *)
(* program is single-threaded and callbacks run to completion.             *)
(*                                                                         *)
(* The loads of paths[1..] run the same closure and differ only in the     *)
(* path they name, so they are kept as counters (in flight, failed,        *)
(* loaded) rather than one record per path.  A key-model load is numbered   *)
(* per slot in issue order; the mesh it delivers carries that number.      *)
(*                                                                         *)
(* Specifications: Spec (loader and key models), SpecMany (the loader      *)
(* alone, many paths), SpecLoop (Spec with the frame loop), SpecInOrder    *)
(* (loads succeed and resolve in issue order), SpecCalm (loads succeed, no *)
(* key event, every request is delivered in the end).                      *)
(***************************************************************************)
EXTENDS Integers, Sequences, FiniteSets, TLC

\* ---------------------------------------------------------------- bounds
MaxPaths     == 3     \* paths.length ranges over 1..MaxPaths in Spec
MaxSwaps     == 3     \* key-model swaps (down or up edges) in one session
TiePaths     == 40    \* a path count with k/N*100 half-way cases (SpecMany)
ManyPaths    == 200   \* a path count with 100/N <= 1/2 (SpecMany)

\* gltf.animations.length of the asset behind each kind of path, per session:
\* no asset animated, or some of them
StillAssets == [base |-> 0, secondary |-> 0, off |-> 0, on |-> 0]

AnimatedAssets == [base |-> 2, secondary |-> 0, off |-> 2, on |-> 1]

ClipProfiles == {StillAssets, AnimatedAssets}

\* key codes the host may deliver; "KeyL" is configured in some sessions only
Codes == {"Digit1", "KeyL"}

\* keyModels configurations tried with every path count, box and clip profile
KeyConfigs == {{}, {"Digit1"}}

\* bounding boxes of an asset (after the base rotation); the last one is a
\* single point, the degenerate case
SolidBox == [min |-> <<-1, 0, -3>>, max |-> <<2, 1, 0>>]

PointBox == [min |-> <<1, 0, -1>>, max |-> <<1, 0, -1>>]

Boxes == {SolidBox, PointBox}

\* --------------------------------------------------------- JS numbers
\* a number is a fraction in lowest terms with a denominator >= 0; the
\* denominator 0 holds the non-finite values: 1/0 Infinity, -1/0 -Infinity,
\* 0/0 NaN
RECURSIVE GCD(_, _)
GCD(a, b) == IF b = 0 THEN a ELSE GCD(b, a % b)

Abs(x) == IF x < 0 THEN -x ELSE x

Max(a, b) == IF a >= b THEN a ELSE b

Sign(x) == IF x > 0 THEN 1 ELSE IF x < 0 THEN -1 ELSE 0

Rat(n, d) ==
  LET g == GCD(Abs(n), Abs(d))
  IN  IF d = 0 THEN [num |-> Sign(n), den |-> 0]
      ELSE [num |-> Sign(d) * (n \div g), den |-> Abs(d) \div g]

Zero == Rat(0, 1)

\* a * b as JS evaluates it (0 * Infinity is NaN); no operand here is NaN
Times(a, b) == Rat(a.num * b.num, a.den * b.den)

\* ------------------------------------------- double-precision percentage
\* Math.round((loaded / total) * 100) in IEEE-754 binary64, for
\* 1 <= loaded <= total: the 53-bit significand is held in five limbs of
\* 13 bits (the first limb is the leading bit), the value is
\* significand * 2^-52 * 2^-shift.
LimbBase == 8192

RECURSIVE Pow2(_)
Pow2(n) == IF n = 0 THEN 1 ELSE 2 * Pow2(n - 1)

RECURSIVE NormShift(_, _)
NormShift(k, n) == IF k >= n THEN 0 ELSE 1 + NormShift(2 * k, n)

Carry(l) ==
  LET c5 == l[5]
      c4 == l[4] + (c5 \div LimbBase)
      c3 == l[3] + (c4 \div LimbBase)
      c2 == l[2] + (c3 \div LimbBase)
      c1 == l[1] + (c2 \div LimbBase)
  IN  <<c1, c2 % LimbBase, c3 % LimbBase, c4 % LimbBase, c5 % LimbBase>>

\* loaded / total, rounded to nearest, ties to even
FDiv(k, n) ==
  LET s  == NormShift(k, n)
      r0 == k * Pow2(s) - n
      d1 == (r0 * LimbBase) \div n
      r1 == (r0 * LimbBase) % n
      d2 == (r1 * LimbBase) \div n
      r2 == (r1 * LimbBase) % n
      d3 == (r2 * LimbBase) \div n
      r3 == (r2 * LimbBase) % n
      d4 == (r3 * LimbBase) \div n
      r4 == (r3 * LimbBase) % n
      up == IF 2 * r4 > n \/ (2 * r4 = n /\ d4 % 2 = 1) THEN 1 ELSE 0
  IN  [mant |-> Carry(<<1, d1, d2, d3, d4 + up>>), shift |-> s]

\* x * 100, rounded to nearest, ties to even
FMul100(x) ==
  LET p    == Carry([i \in 1..5 |-> 100 * x.mant[i]])
      drop == IF p[1] < 128 THEN 64 ELSE 128
      low  == p[5] % drop
      keep == p[5] \div drop
      up   == IF 2 * low > drop \/ (2 * low = drop /\ keep % 2 = 1) THEN 1 ELSE 0
  IN  [mant |-> Carry(<<p[1], p[2], p[3], p[4], (keep + up) * drop>>),
       shift |-> x.shift]

\* Math.round(y) = floor(y + 0.5)
MathRound(y) ==
  (2 * y.mant[1] + (y.mant[2] \div (LimbBase \div 2)) + Pow2(y.shift))
    \div Pow2(y.shift + 1)

\* Math.floor(100 * loaded / total) in place of Math.round
PctFloor(ld, tot) == (100 * ld) \div tot

Pct(ld, tot) == MathRound(FMul100(FDiv(ld, tot)))

\* ----------------------------------------------------------------- state
VARIABLES
  total,        \* paths.length
  baseBox,      \* bounding box of the asset at paths[0]
  assetClips,   \* number of clips of the asset behind each kind of path
  baseLoad,     \* the load of paths[0]: "pending", "ok" or "failed"
  secPending,   \* loads of paths[1..] in flight
  secFailed,    \* loads of paths[1..] that failed
  loaded,       \* the closure variable loaded of loadModels
  pct,          \* progressElement.style.width, in percent; NoPct: never written
  loadingText,  \* loadingText.textContent
  overlay,      \* loadingScreen.style.display: "shown" or "none"
  frame,        \* _globalScale / _globalOffset, or Unset
  sceneBase,    \* number of base and secondary models in the scene
  basePlaced,   \* the scale/offset pairs those models were placed with
  keyModels,    \* code -> [pressed, mesh]
  inflight,     \* key-model loads in flight
  sceneKey,     \* key-model meshes in the scene
  mixers,       \* the roots of this.mixers, in push order
  issued,       \* code -> number of key-model loads issued (numbers the loads)
  initRuns,     \* number of runs of _initKeyModels (bookkeeping)
  lastResolved, \* code -> highest load number whose completion callback ran
  rafPending,   \* frame callbacks registered with requestAnimationFrame
  updated       \* number of mixers the last run of animate advanced

vars == <<total, baseBox, assetClips, baseLoad, secPending, secFailed, loaded,
          pct, loadingText, overlay, frame, sceneBase, basePlaced, keyModels,
          inflight, sceneKey, mixers, issued, initRuns, lastResolved,
          rafPending, updated>>

config   == <<total, baseBox, assetClips>>
loader   == <<baseLoad, secPending, secFailed, loaded, sceneBase, basePlaced>>
progress == <<pct, loadingText, overlay, initRuns>>
loop     == <<rafPending, updated>>

\* this._globalScale and this._globalOffset before the base asset resolves
Unset == [defined |-> FALSE, scale |-> Zero, offset |-> <<Zero, Zero, Zero>>]

\* keyModels[code].mesh before a key model resolves
NoMesh == [code |-> "null", variant |-> "null", seq |-> 0, frame |-> Unset]

NoPct == -1

\* the slot _setupKeyModels builds for every configured code
NewSlot == [mesh |-> NoMesh, pressed |-> FALSE]

InitCommon ==
  /\ baseLoad = "pending"
  /\ secPending = 0
  /\ secFailed = 0
  /\ loaded = 0
  /\ pct = NoPct
  /\ loadingText = <<"initial">>
  /\ overlay = "shown"
  /\ frame = Unset
  /\ sceneBase = 0
  /\ basePlaced = {}
  /\ inflight = {}
  /\ sceneKey = {}
  /\ mixers = << >>
  /\ issued = [c \in DOMAIN keyModels |-> 0]
  /\ initRuns = 0
  /\ lastResolved = [c \in DOMAIN keyModels |-> 0]
  /\ rafPending = 1
  /\ updated = 0

\* the state when init returns: the load of paths[0] is in flight, the key
\* listeners are armed, animate has run once (over no mixer) and has
\* registered its successor
Init ==
  /\ \/ /\ total \in 1..MaxPaths
        /\ baseBox \in Boxes
        /\ assetClips \in ClipProfiles
        /\ \E cfg \in KeyConfigs : keyModels = [c \in cfg |-> NewSlot]
     \/ \* two key slots: one or two paths, animated assets
        /\ total \in {1, 2}
        /\ baseBox = SolidBox
        /\ assetClips = AnimatedAssets
        /\ keyModels = [c \in Codes |-> NewSlot]
  /\ InitCommon

\* a session without key models (the listing src/js/GLBModel.js has none),
\* with few or many paths
InitMany ==
  /\ total \in {1, 2, 3, 8, TiePaths, ManyPaths}
  /\ baseBox = SolidBox
  /\ assetClips = StillAssets
  /\ keyModels = [c \in {} |-> NewSlot]
  /\ InitCommon

\* -------------------------------------------------------------- loadModels
\* the Normalization Frame of a bounding box (Box3.getCenter, getSize)
ComputeFrame(box) ==
  LET size   == [i \in 1..3 |-> box.max[i] - box.min[i]]
      center == [i \in 1..3 |-> Rat(box.min[i] + box.max[i], 2)]
      maxDim == Max(size[1], Max(size[2], size[3]))
      scale  == Rat(2, maxDim)
  IN  [defined |-> TRUE, scale |-> scale,
       offset |-> [i \in 1..3 |-> Times(center[i], scale)]]

\* if (gltf.animations?.length) { mixers.push(new AnimationMixer(root)); ... }
AddMixer(mx, root, clips) ==
  IF clips > 0 THEN Append(mx, [root |-> root, actions |-> clips]) ELSE mx

\* the request _loadKeyModel hands to the loader; origin, resident and early
\* are bookkeeping: who issued it, which mesh the slot held at that moment
\* and whether the load of paths[0] was still in flight
LoadRequest(code, variant, origin) ==
  [code |-> code, variant |-> variant, seq |-> issued[code] + 1,
   origin |-> origin, resident |-> keyModels[code].mesh,
   early |-> baseLoad = "pending"]

_loadKeyModel(code, variant, origin) ==
  /\ inflight' = inflight \cup {LoadRequest(code, variant, origin)}
  /\ issued' = [issued EXCEPT ![code] = @ + 1]

_swapKeyModel(code, state) == _loadKeyModel(code, state, "swap")

_initKeyModels ==
  /\ inflight' = inflight \cup
                   {LoadRequest(code, "off", "init") : code \in DOMAIN keyModels}
  /\ issued' = [code \in DOMAIN keyModels |-> issued[code] + 1]
  /\ initRuns' = initRuns + 1

\* the key models initialised on every progress update
_updateProgressAlways(ld, tot) ==
  LET p == Pct(ld, tot)
  IN  /\ pct' = p
      /\ loadingText' = IF p >= 100 THEN <<"Finalizing...">>
                                    ELSE <<"Loading", p>>
      /\ overlay' = IF ld = tot THEN "none" ELSE overlay
      /\ _initKeyModels

_updateProgress(ld, tot) ==
  LET p == Pct(ld, tot)
  IN  /\ pct' = p
      /\ loadingText' = IF p >= 100 THEN <<"Finalizing...">>
                                    ELSE <<"Loading", p>>
      /\ IF ld = tot
         THEN overlay' = "none" /\ _initKeyModels
         ELSE UNCHANGED <<overlay, inflight, issued, initRuns>>

\* the completion callback of loader.load(paths[0], ...)
onBaseLoad ==
  /\ baseLoad = "pending"
  /\ LET f == ComputeFrame(baseBox)
     IN  /\ frame' = f
         /\ basePlaced' = basePlaced \cup {f}
  /\ sceneBase' = sceneBase + 1
  /\ mixers' = AddMixer(mixers, <<"model", loaded + 1>>, assetClips.base)
  /\ loaded' = loaded + 1
  /\ _updateProgress(loaded + 1, total)
  /\ secPending' = total - 1
  /\ baseLoad' = "ok"
  /\ UNCHANGED <<config, loop, secFailed, keyModels, sceneKey, lastResolved>>

\* an error callback that goes on to load the remaining paths
onBaseErrorContinue ==
  /\ baseLoad = "pending"
  /\ baseLoad' = "failed"
  /\ secPending' = total - 1
  /\ UNCHANGED <<config, loop, secFailed, loaded, sceneBase, basePlaced,
                 progress, frame, keyModels, inflight, sceneKey, mixers, issued,
                 lastResolved>>

\* the error callback of loader.load(paths[0], ...): console.error only
onBaseError ==
  /\ baseLoad = "pending"
  /\ baseLoad' = "failed"
  /\ UNCHANGED <<config, loop, secPending, secFailed, loaded, sceneBase, basePlaced,
                 progress, frame, keyModels, inflight, sceneKey, mixers, issued,
                 lastResolved>>

\* a secondary completion that computes the frame again, from its own asset
onSecondaryLoadRecompute ==
  /\ secPending > 0
  /\ mixers' = AddMixer(mixers, <<"model", loaded + 1>>, assetClips.secondary)
  /\ \E box \in Boxes :
       /\ frame' = ComputeFrame(box)
       /\ basePlaced' = basePlaced \cup {ComputeFrame(box)}
  /\ sceneBase' = sceneBase + 1
  /\ loaded' = loaded + 1
  /\ _updateProgress(loaded + 1, total)
  /\ secPending' = secPending - 1
  /\ UNCHANGED <<config, loop, baseLoad, secFailed, keyModels, sceneKey,
                 lastResolved>>

\* the completion callback of loader.load(paths[i], ...), i >= 1
onSecondaryLoad ==
  /\ secPending > 0
  /\ mixers' = AddMixer(mixers, <<"model", loaded + 1>>, assetClips.secondary)
  /\ basePlaced' = basePlaced \cup {frame}
  /\ sceneBase' = sceneBase + 1
  /\ loaded' = loaded + 1
  /\ _updateProgress(loaded + 1, total)
  /\ secPending' = secPending - 1
  /\ UNCHANGED <<config, loop, baseLoad, secFailed, frame, keyModels, sceneKey,
                 lastResolved>>

\* the error callback of loader.load(paths[i], ...): console.error only
onSecondaryError ==
  /\ secPending > 0
  /\ secPending' = secPending - 1
  /\ secFailed' = secFailed + 1
  /\ UNCHANGED <<config, loop, baseLoad, loaded, sceneBase, basePlaced, progress,
                 frame, keyModels, inflight, sceneKey, mixers, issued,
                 lastResolved>>
\* ----------------------------------------------------------- key models
\* key-model loads issued by the key listeners so far (bounds the session)
RECURSIVE SumOver(_, _)
SumOver(f, S) ==
  IF S = {} THEN 0
  ELSE LET x == CHOOSE y \in S : TRUE IN f[x] + SumOver(f, S \ {x})

SwapsIssued ==
  SumOver(issued, DOMAIN issued) - initRuns * Cardinality(DOMAIN issued)

\* keydown without the pressed test (level-triggered): if (km) { ... }
keydownLevel(code) ==
  /\ SwapsIssued < MaxSwaps
  /\ IF code \in DOMAIN keyModels
     THEN /\ keyModels' = [keyModels EXCEPT ![code].pressed = TRUE]
          /\ _swapKeyModel(code, "on")
     ELSE UNCHANGED <<keyModels, inflight, issued>>
  /\ UNCHANGED <<config, loop, loader, progress, frame, sceneKey, mixers,
                 lastResolved>>

\* the listener _setupKeyModels registers for keydown
keydown(code) ==
  /\ SwapsIssued < MaxSwaps
  /\ IF code \in DOMAIN keyModels /\ ~keyModels[code].pressed
     THEN /\ keyModels' = [keyModels EXCEPT ![code].pressed = TRUE]
          /\ _swapKeyModel(code, "on")
     ELSE UNCHANGED <<keyModels, inflight, issued>>
  /\ UNCHANGED <<config, loop, loader, progress, frame, sceneKey, mixers,
                 lastResolved>>

\* the listener _setupKeyModels registers for keyup
keyup(code) ==
  /\ SwapsIssued < MaxSwaps
  /\ IF code \in DOMAIN keyModels /\ keyModels[code].pressed
     THEN /\ keyModels' = [keyModels EXCEPT ![code].pressed = FALSE]
          /\ _swapKeyModel(code, "off")
     ELSE UNCHANGED <<keyModels, inflight, issued>>
  /\ UNCHANGED <<config, loop, loader, progress, frame, sceneKey, mixers,
                 lastResolved>>

\* prev never found: the old mesh is not removed
PrevForgotten(req) == NoMesh

\* prev read when the load is issued instead of when it completes
PrevAtIssue(req) == req.resident

\* one prev for all slots: the mesh of the first configured slot
PrevShared(req) == keyModels[CHOOSE c \in DOMAIN keyModels : TRUE].mesh

\* const prev = this.keyModels[code].mesh, read inside the completion callback
PrevMesh(req) == keyModels[req.code].mesh

\* a completion callback that places its mesh whatever the frame is
onKeyModelLoadUnframed(req) ==
  /\ req \in inflight
  /\ inflight' = inflight \ {req}
  /\ LET prev == PrevMesh(req)
         m    == [code |-> req.code, variant |-> req.variant, seq |-> req.seq,
                  frame |-> frame]
     IN  /\ sceneKey' = (sceneKey \ {prev}) \cup {m}
         /\ keyModels' = [keyModels EXCEPT ![req.code].mesh = m]
         /\ mixers' = AddMixer(mixers, <<req.code, req.seq>>,
                               assetClips[req.variant])
  /\ lastResolved' = [lastResolved EXCEPT ![req.code] = Max(@, req.seq)]
  /\ UNCHANGED <<config, loop, loader, progress, frame, issued>>

\* the completion callback of _loadKeyModel.  With the frame still undefined
\* m.position.sub(this._globalOffset) throws a TypeError after prev has been
\* removed: the mesh is neither added nor stored and no mixer is made.
onKeyModelLoad(req) ==
  /\ req \in inflight
  /\ inflight' = inflight \ {req}
  /\ LET prev == PrevMesh(req)
         m    == [code |-> req.code, variant |-> req.variant, seq |-> req.seq,
                  frame |-> frame]
     IN  IF frame.defined
         THEN /\ sceneKey' = (sceneKey \ {prev}) \cup {m}
              /\ keyModels' = [keyModels EXCEPT ![req.code].mesh = m]
              /\ mixers' = AddMixer(mixers, <<req.code, req.seq>>,
                                    assetClips[req.variant])
         ELSE /\ sceneKey' = sceneKey \ {prev}
              /\ UNCHANGED <<keyModels, mixers>>
  /\ lastResolved' = [lastResolved EXCEPT ![req.code] = Max(@, req.seq)]
  /\ UNCHANGED <<config, loop, loader, progress, frame, issued>>

\* an error callback that takes the slot's mesh out of the scene
onKeyModelErrorClears(req) ==
  /\ req \in inflight
  /\ inflight' = inflight \ {req}
  /\ sceneKey' = sceneKey \ {keyModels[req.code].mesh}
  /\ keyModels' = [keyModels EXCEPT ![req.code].mesh = NoMesh]
  /\ UNCHANGED <<config, loop, loader, progress, frame, mixers, issued,
                 lastResolved>>

\* the error callback of _loadKeyModel: console.error only
onKeyModelError(req) ==
  /\ req \in inflight
  /\ inflight' = inflight \ {req}
  /\ UNCHANGED <<config, loop, loader, progress, frame, keyModels, sceneKey, mixers,
                 issued, lastResolved>>

\* ------------------------------------------------------------- animate
\* a frame callback that registers no successor
animateOnce ==
  /\ rafPending > 0
  /\ rafPending' = rafPending - 1
  /\ updated' = Len(mixers)
  /\ UNCHANGED <<config, loader, progress, frame, keyModels, inflight,
                 sceneKey, mixers, issued, lastResolved>>

\* a pending frame callback runs: requestAnimationFrame(animate) first, then
\* this.mixers.forEach((m) => m.update(delta)) and the render
animate ==
  /\ rafPending > 0
  /\ rafPending' = (rafPending - 1) + 1
  /\ updated' = Len(mixers)
  /\ UNCHANGED <<config, loader, progress, frame, keyModels, inflight,
                 sceneKey, mixers, issued, lastResolved>>

\* ------------------------------------------------------- specifications
\* the loader, the key listeners and the key-model loads.  animate writes
\* only rafPending and updated and no other action reads them, so the frame
\* loop is left to SpecLoop below.
Next ==
  \/ onBaseLoad
  \/ onBaseError
  \/ onSecondaryLoad
  \/ onSecondaryError
  \/ \E code \in Codes : keydown(code)
  \/ \E code \in Codes : keyup(code)
  \/ \E req \in inflight : onKeyModelLoad(req)
  \/ \E req \in inflight : onKeyModelError(req)

Spec == Init /\ [][Next]_vars

\* the loader alone, for sessions without key models
NextMany ==
  \/ onBaseLoad
  \/ onBaseError
  \/ onSecondaryLoad
  \/ onSecondaryError

SpecMany == InitMany /\ [][NextMany]_vars

\* sessions of one or two paths with the frame loop running
InitLoop ==
  /\ total \in {1, 2}
  /\ baseBox = SolidBox
  /\ assetClips \in ClipProfiles
  /\ \E cfg \in KeyConfigs : keyModels = [c \in cfg |-> NewSlot]
  /\ InitCommon

NextLoop ==
  \/ Next
  \/ animate

SpecLoop == InitLoop /\ [][NextLoop]_vars

\* every load succeeds and the loads resolve in the order they were issued:
\* paths[0] first; then the key-model loads issued before it resolved; then
\* paths[1..], issued by its completion; then the key-model loads issued
\* since, those of a slot by their number.  At most one key slot is
\* configured, so the numbers of a slot order all key-model loads.
InitInOrder ==
  /\ Init
  /\ Cardinality(DOMAIN keyModels) <= 1

InOrder(req) ==
  /\ baseLoad # "pending"
  /\ \A r \in inflight : r.code = req.code => r.seq >= req.seq
  /\ req.early \/ secPending = 0

NextInOrder ==
  \/ onBaseLoad
  \/ (\A r \in inflight : ~r.early) /\ onSecondaryLoad
  \/ \E code \in Codes : keydown(code)
  \/ \E code \in Codes : keyup(code)
  \/ \E req \in inflight : InOrder(req) /\ onKeyModelLoad(req)

SpecInOrder == InitInOrder /\ [][NextInOrder]_vars

\* a request leaves the loader: the step of onBaseLoad, of onSecondaryLoad
\* and of onKeyModelLoad in NextCalm, seen from the request
BaseDelivered == baseLoad = "pending" /\ baseLoad' = "ok"

SecondaryDelivered == secPending > 0 /\ secPending' = secPending - 1

KeyModelDelivered == \E req \in inflight : inflight' = inflight \ {req}

\* no key event and no failure: every load that is issued is delivered in
\* the end (the loader calls back once per request), in any order
NextCalm ==
  \/ onBaseLoad
  \/ onSecondaryLoad
  \/ \E req \in inflight : onKeyModelLoad(req)
  \/ animate

SpecCalm ==
  /\ Init
  /\ [][NextCalm]_vars
  /\ WF_baseLoad(BaseDelivered)
  /\ WF_secPending(SecondaryDelivered)
  /\ WF_inflight(KeyModelDelivered)

\* ---------------------------------------------------------------- claims
Slots == DOMAIN keyModels

\* the meshes of a key slot that are in the scene
SlotMeshes(code) == {m \in sceneKey : m.code = code}

\* the loads of a key slot that are in flight
SlotLoads(code) == {r \in inflight : r.code = code}

\* the load numbers of a slot's animated meshes, in the order they resolved
ResolvedOrder(code) ==
  LET mine == SelectSeq(mixers, LAMBDA mx : mx.root[1] = code)
  IN  [i \in 1..Len(mine) |-> mine[i].root[2]]

\* C1: in every reachable state every key slot has at most one of its meshes
\* in the scene, whatever the interleaving of key events and completions.
C1_AtMostOneMeshPerSlot ==
  \A code \in Slots : Cardinality(SlotMeshes(code)) <= 1

\* an off -> on -> off toggle whose three loads resolved in issue order:
\* the slot holds the third load's mesh and nothing else
C1_Witness ==
  /\ "Digit1" \in Slots
  /\ ResolvedOrder("Digit1") = <<1, 2, 3>>
  /\ ~keyModels["Digit1"].pressed
  /\ SlotLoads("Digit1") = {}
  /\ keyModels["Digit1"].mesh.seq = 3
  /\ keyModels["Digit1"].mesh.variant = "off"
  /\ SlotMeshes("Digit1") = {keyModels["Digit1"].mesh}

\* C2: no secondary load and no key-model load (initial off, keydown on,
\* keyup off) is issued before the load of paths[0] has resolved
\* successfully.  The key listeners are armed by init, so this fails.
C2_LoadsOnlyAfterBase ==
  (secPending + secFailed > 0 \/ \E code \in Slots : issued[code] > 0)
    => baseLoad = "ok"

\* the key-model loads of a slot issued by the key listeners in this step
NewSwaps(code) ==
  {r \in inflight' \ inflight : r.code = code /\ r.origin = "swap"}

\* C3: key handling is edge-triggered.  A step that takes pressed from
\* false to true issues exactly one load, of the "on" path; a step that
\* takes it from true to false issues exactly one load, of the "off" path;
\* a step that leaves pressed as it is (a repeated keydown, a keyup while
\* released, any callback) issues no key-listener load.
C3_EdgeTriggered ==
  [][\A code \in Slots :
       LET was == keyModels[code].pressed
           is  == keyModels'[code].pressed
       IN  /\ (~was /\ is) =>
                /\ Cardinality(NewSwaps(code)) = 1
                /\ \A r \in NewSwaps(code) : r.variant = "on"
           /\ (was /\ ~is) =>
                /\ Cardinality(NewSwaps(code)) = 1
                /\ \A r \in NewSwaps(code) : r.variant = "off"
           /\ (was = is) => NewSwaps(code) = {}]_vars

\* a down edge and then an up edge have each issued their load
C3_Witness ==
  /\ "Digit1" \in Slots
  /\ ~keyModels["Digit1"].pressed
  /\ \E r1, r2 \in SlotLoads("Digit1") :
       /\ r1.origin = "swap" /\ r1.variant = "on"
       /\ r2.origin = "swap" /\ r2.variant = "off"
       /\ r2.seq = r1.seq + 1

\* the largest extent of the base asset's bounding box
BaseMaxDim ==
  Max(baseBox.max[1] - baseBox.min[1],
      Max(baseBox.max[2] - baseBox.min[2], baseBox.max[3] - baseBox.min[3]))

\* frame.scale = 2 / maxDim and frame.offset = center * scale, center being
\* (min + max) / 2, stated without division
FrameOfBase ==
  /\ frame.scale.den > 0
  /\ frame.scale.num * BaseMaxDim = 2 * frame.scale.den
  /\ \A i \in 1..3 :
       /\ frame.offset[i].den > 0
       /\ frame.offset[i].num * BaseMaxDim
            = (baseBox.min[i] + baseBox.max[i]) * frame.offset[i].den

\* C4: the Normalization Frame is unset, or it is (2 / maxDim, center *
\* scale) of the base asset's bounding box (for maxDim > 0); it is written
\* once, by the completion callback of the base asset, and no secondary or
\* key-model load changes it.
C4_FrameOnceFromBase ==
  /\ [](/\ frame.defined <=> baseLoad = "ok"
        /\ ~frame.defined => frame = Unset
        /\ (frame.defined /\ BaseMaxDim > 0) => FrameOfBase)
  /\ [][frame' # frame =>
          /\ ~frame.defined
          /\ baseLoad = "pending" /\ baseLoad' = "ok"]_vars

\* a secondary model and a key model have resolved after the base asset and
\* the frame is still the base asset's
C4_Witness ==
  /\ frame.defined
  /\ BaseMaxDim > 0
  /\ sceneBase >= 2
  /\ \E m \in sceneKey : m.frame = frame

\* round(a / b) for a >= 0, b > 0, over the rationals: floor(a / b + 1 / 2)
RoundRatio(a, b) == (2 * a + b) \div (2 * b)

\* a / b lies exactly half-way between two integers
HalfWay(a, b) == (2 * a) % b = 0 /\ ((2 * a) \div b) % 2 = 1

\* the successful completions so far
Completions ==
  IF baseLoad = "ok" THEN total - secPending - secFailed ELSE 0

\* C5 as claimed: after the k-th successful completion the counter is k and
\* the reported percentage is round(100 * k / N).
C5_PctIsRoundedRatio ==
  /\ loaded = Completions
  /\ loaded >= 1 => pct = RoundRatio(100 * loaded, total)

\* C5 as amended: the counter is the number of successful completions (N
\* when all have succeeded); the percentage is Math.round((k / N) * 100) in
\* double precision, which is round(100 * k / N) unless 100 * k / N lies
\* exactly half-way between two integers, where it is that or one less; and
\* the percentage never decreases.
C5_PctRoundedInDoubles ==
  /\ [](/\ loaded = Completions
        /\ (baseLoad = "ok" /\ secPending = 0 /\ secFailed = 0) => loaded = total
        /\ loaded = 0 => pct = NoPct
        /\ loaded >= 1 =>
             IF HalfWay(100 * loaded, total)
             THEN pct \in {RoundRatio(100 * loaded, total),
                           RoundRatio(100 * loaded, total) - 1}
             ELSE pct = RoundRatio(100 * loaded, total))
  /\ [][pct' >= pct]_vars

\* a half-way case where the double-precision product falls below the tie
C5_Witness ==
  /\ loaded >= 1
  /\ HalfWay(100 * loaded, total)
  /\ pct = RoundRatio(100 * loaded, total) - 1

\* C6: once the load of paths[0] has failed, the frame is unset, no
\* secondary load has been issued and the counter is 0.
C6_BaseFailureStopsLoader ==
  baseLoad = "failed" =>
    /\ ~frame.defined
    /\ secPending = 0 /\ secFailed = 0
    /\ loaded = 0 /\ sceneBase = 0

\* the base load has failed and a key-model load issued by a key listener
\* has since been delivered
C6_Witness ==
  /\ baseLoad = "failed"
  /\ \E code \in Slots : lastResolved[code] > 0

\* C7: once a base or secondary load has failed, the counter is below the
\* total, the reported percentage is below 100 and the overlay is shown.
C7_FailureStallsBelow100 ==
  (baseLoad = "failed" \/ secFailed > 0) =>
    /\ loaded < total
    /\ pct < 100
    /\ overlay = "shown"

\* the initial "off" loads issued in this step
NewInitLoads == {r \in inflight' \ inflight : r.origin = "init"}

\* C8: the overlay is hidden and the initial "off" load of every key slot
\* is issued exactly at the step where the counter reaches the total; that
\* step happens at most once, and before it the overlay is shown and no
\* initial load has been issued.
C8_InitAtFullLoad ==
  /\ [](/\ initRuns = (IF loaded = total THEN 1 ELSE 0)
        /\ overlay = (IF loaded = total THEN "none" ELSE "shown")
        /\ loaded < total =>
             \A code \in Slots :
               /\ \A r \in SlotLoads(code) : r.origin # "init"
               /\ keyModels[code].mesh.variant # "off"
                    \/ keyModels[code].mesh.seq > 1)
  /\ [][IF loaded # total /\ loaded' = total
        THEN /\ overlay = "shown" /\ overlay' = "none"
             /\ \A code \in Slots :
                  \E r \in NewInitLoads :
                    /\ r.code = code /\ r.variant = "off"
                    /\ \A q \in NewInitLoads : q.code = code => q = r
        ELSE NewInitLoads = {} /\ overlay' = overlay]_vars

\* the counter has reached the total with two key slots configured: the
\* overlay is hidden and both initial loads are in flight
C8_Witness ==
  /\ Slots = Codes
  /\ loaded = total
  /\ overlay = "none"
  /\ \A code \in Slots :
       \E r \in SlotLoads(code) : r.origin = "init" /\ r.variant = "off"

\* the slot's mesh comes from a load that resolved after a later-issued one
Overtaken(code) ==
  /\ keyModels[code].mesh # NoMesh
  /\ keyModels[code].mesh.seq < lastResolved[code]

\* a mesh of the slot is in the scene and the slot does not refer to it
Orphaned(code) == \E m \in SlotMeshes(code) : m # keyModels[code].mesh

\* C9 as claimed: once an earlier-issued load of a slot has resolved after
\* a later-issued one, the scene holds a mesh of the slot that the slot's
\* reference does not point to.
C9_ReorderingOrphansMesh ==
  \A code \in Slots : Overtaken(code) => Orphaned(code)

\* C9 as amended: no resolution order orphans a mesh.  The scene holds
\* exactly the mesh the slot refers to, also after an earlier-issued load
\* has resolved after a later-issued one; what reordering breaks is the
\* variant, the earlier load's mesh replacing the later one's.
C9_NoOrphanUnderReordering ==
  \A code \in Slots :
    /\ ~Orphaned(code)
    /\ keyModels[code].mesh # NoMesh => keyModels[code].mesh \in sceneKey

\* an off -> on -> off toggle whose "on" load resolved last: one mesh is
\* resident, the "on" variant, with the key released and nothing in flight
C9_Witness ==
  /\ "Digit1" \in Slots
  /\ issued["Digit1"] = 3
  /\ SlotLoads("Digit1") = {}
  /\ ~keyModels["Digit1"].pressed
  /\ Overtaken("Digit1")
  /\ keyModels["Digit1"].mesh.variant = "on"
  /\ SlotMeshes("Digit1") = {keyModels["Digit1"].mesh}

\* the step is the completion callback of req placing its mesh
Resolves(req) ==
  /\ req \in inflight
  /\ req \notin inflight'
  /\ keyModels'[req.code].mesh.seq = req.seq

\* the meshes this step removes from the scene
Removed == sceneKey \ sceneKey'

\* C10 as claimed: the mesh a resolving key-model load removes is the mesh
\* that was resident for the slot when the load was issued.
C10_RemovesMeshOfIssueTime ==
  [][\A req \in inflight : Resolves(req) => Removed \subseteq {req.resident}]_vars

\* C10 as amended: the mesh a resolving key-model load removes is the mesh
\* the slot refers to when the load completes; the reference is read inside
\* the completion callback, not when the load is issued.
C10_RemovesMeshOfCompletionTime ==
  [][\A req \in inflight :
       Resolves(req) =>
         /\ Removed \subseteq {keyModels[req.code].mesh}
         /\ keyModels[req.code].mesh # NoMesh =>
              Removed = {keyModels[req.code].mesh}]_vars

\* a load is in flight whose slot held another mesh when it was issued
\* than the one now resident: an earlier completion has replaced it
C10_Witness ==
  \E req \in inflight :
    /\ req.resident # NoMesh
    /\ keyModels[req.code].mesh # req.resident
    /\ keyModels[req.code].mesh \in sceneKey
    /\ req.resident \notin sceneKey

\* one model per path, one "off" mesh per key slot, all placed with the one
\* frame, overlay hidden
Settled ==
  /\ sceneBase = total
  /\ frame.defined
  /\ basePlaced = {frame}
  /\ Cardinality(sceneKey) = Cardinality(Slots)
  /\ \A code \in Slots :
       /\ SlotMeshes(code) = {keyModels[code].mesh}
       /\ keyModels[code].mesh.variant = "off"
       /\ keyModels[code].mesh.frame = frame
  /\ overlay = "none"

\* C11: if every issued load resolves successfully and no key event occurs,
\* the system reaches and then stays in a state where the scene holds one
\* model per path and one mesh per key slot, the slot's "off" variant, all
\* placed with the same scale and offset, and the overlay is hidden.
C11_EventuallySettled == <>[]Settled

\* two paths and two key slots have settled
C11_Witness ==
  /\ Settled
  /\ total = 2
  /\ Slots = Codes
  /\ inflight = {}

\* the step is a key edge of the slot or ends one of the slot's loads
\* (completion or failure)
OwnStep(code) ==
  \/ keyModels'[code].pressed # keyModels[code].pressed
  \/ \E r \in SlotLoads(code) : r \notin inflight'

\* C12: key slots are independent.  A keydown, a keyup, a load completion
\* or a load failure of one slot leaves the pressed flag, the mesh
\* reference and the resident meshes of every other slot unchanged.
C12_SlotsIndependent ==
  [][\A code \in Slots :
       OwnStep(code) =>
         \A other \in Slots \ {code} :
           /\ keyModels'[other] = keyModels[other]
           /\ {m \in sceneKey' : m.code = other} = SlotMeshes(other)]_vars

\* "Digit1" has been pressed and its "on" mesh placed while "KeyL" still
\* holds the mesh of its initial load
C12_Witness ==
  /\ Slots = Codes
  /\ keyModels["Digit1"].pressed
  /\ keyModels["Digit1"].mesh.variant = "on"
  /\ SlotMeshes("Digit1") = {keyModels["Digit1"].mesh}
  /\ ~keyModels["KeyL"].pressed
  /\ keyModels["KeyL"].mesh.variant = "off"
  /\ keyModels["KeyL"].mesh.seq = 1
  /\ SlotMeshes("KeyL") = {keyModels["KeyL"].mesh}

\* C13: with every load succeeding and the loads resolving in issue order,
\* whenever no load of a key slot is in flight and the slot has a resident
\* mesh, that mesh is the "on" variant exactly if the slot's pressed flag is
\* true, also when the key was pressed before the base assets had loaded.
\* A key held since before the last base completion ends with the "off"
\* mesh of the initial load, so this fails.
C13_VariantFollowsPressed ==
  \A code \in Slots :
    (SlotLoads(code) = {} /\ SlotMeshes(code) # {}) =>
      \A m \in SlotMeshes(code) :
        (m.variant = "on") <=> keyModels[code].pressed

\* C14: a mesh (base, secondary or key model) is added to the scene only
\* with the Normalization Frame set, and with that frame's scale and
\* offset: every mesh in the scene carries the current frame, and a step
\* that starts with the frame unset adds a mesh only by setting the frame
\* first (the completion of paths[0]).
C14_PlacedWithSetFrame ==
  /\ [](/\ (sceneBase > 0 \/ sceneKey # {}) => frame.defined
        /\ basePlaced \subseteq {frame}
        /\ \A m \in sceneKey : m.frame = frame)
  /\ [][(sceneBase' > sceneBase \/ sceneKey' \ sceneKey # {}) =>
          /\ frame'.defined
          /\ ~frame.defined => (baseLoad = "pending" /\ baseLoad' = "ok")]_vars

\* a key-model load has been delivered while the frame was unset: nothing
\* of the slot is in the scene
C14_Witness ==
  /\ baseLoad = "pending"
  /\ ~frame.defined
  /\ \E code \in Slots :
       /\ lastResolved[code] > 0
       /\ SlotMeshes(code) = {}
       /\ keyModels[code].mesh = NoMesh

\* C15: a key slot that has a mesh in the scene has one after every step
\* (key event, issued load, completion, failure), and a load of the slot
\* that ends without placing its mesh (a failed load) leaves the mesh
\* references and the scene as they were.
C15_SlotKeepsAMesh ==
  [][\A code \in Slots :
       /\ SlotMeshes(code) # {} => {m \in sceneKey' : m.code = code} # {}
       /\ \A req \in SlotLoads(code) :
            (req \notin inflight' /\ keyModels'[code].mesh.seq # req.seq) =>
              /\ keyModels' = keyModels
              /\ sceneKey' = sceneKey]_vars

\* the key is down, its "on" load has failed and the mesh of the initial
\* load is still the slot's resident mesh
C15_Witness ==
  \E code \in Slots :
    /\ keyModels[code].pressed
    /\ issued[code] = 2
    /\ SlotLoads(code) = {}
    /\ lastResolved[code] = 1
    /\ keyModels[code].mesh.seq = 1
    /\ keyModels[code].mesh.variant = "off"
    /\ SlotMeshes(code) = {keyModels[code].mesh}

\* this.mixers after the step is this.mixers before it with n mixers pushed
Grown(n) ==
  /\ Len(mixers') = Len(mixers) + n
  /\ SubSeq(mixers', 1, Len(mixers)) = mixers

\* the mixers a load of an asset with that many clips is to push
MixersFor(clips) == IF clips > 0 THEN 1 ELSE 0

\* the step delivers req: its completion callback runs, and no later load of
\* the slot has been delivered before
Delivers(req) ==
  /\ req \in inflight
  /\ req \notin inflight'
  /\ lastResolved[req.code] < req.seq
  /\ lastResolved'[req.code] = req.seq

\* C16: the list of mixers only grows.  Every successfully resolved load of
\* an asset with at least one clip pushes exactly one mixer, a load of an
\* asset without clips pushes none, no step removes a mixer, and every
\* frame advances every mixer of the list, those of removed meshes too.
\* A key-model load delivered while the frame is unset pushes no mixer, so
\* this fails.
C16_MixersOnlyGrow ==
  [][/\ Grown(0) \/ Grown(1)
     /\ (baseLoad = "pending" /\ baseLoad' = "ok") =>
          Grown(MixersFor(assetClips.base))
     /\ (baseLoad = "ok" /\ loaded' = loaded + 1) =>
          Grown(MixersFor(assetClips.secondary))
     /\ \A req \in inflight :
          Delivers(req) => Grown(MixersFor(assetClips[req.variant]))
     /\ updated' # updated => updated' = Len(mixers)]_vars

\* C17: the frame loop never stops and never duplicates.  In every state
\* after init exactly one frame callback is pending: a run of animate
\* takes the pending one and registers one, and no load completion, load
\* failure or key event changes the number of pending frame callbacks.
C17_OneFrameCallbackPending ==
  /\ [](rafPending = 1)
  /\ [][rafPending' = rafPending]_vars

\* frames have run after a key was pressed and its mesh placed: the last
\* one advanced every mixer and one frame callback is pending
C17_Witness ==
  /\ rafPending = 1
  /\ updated = Len(mixers)
  /\ updated >= 3
  /\ \E code \in Slots :
       /\ keyModels[code].pressed
       /\ keyModels[code].mesh.variant = "on"
====
